---- MODULE Spec2Model ----
(***************************************************************************)
(* Student grouping (tut01.py): branch_finder, branchwise_allocation,      *)
(* uniform_allocation and compile_summary, as main() runs them on one      *)
(* table of records.  A record is its 1-based row number in the input      *)
(* table; its Roll and Branch are the columns roll[i] and branch[i].       *)
(* Strings are sequences of one-character strings, so that the regular     *)
(* expression search of branch_finder is computed character by character.  *)
(***************************************************************************)
EXTENDS Integers, Sequences, FiniteSets, TLC

(* ---------------------------- bounds ------------------------------------ *)
MaxRecords == 7
MaxParts == 3
MaxRollLen == 4

(* ---------------------------- characters -------------------------------- *)
UpperCase ==
  << "A","B","C","D","E","F","G","H","I","J","K","L","M",
     "N","O","P","Q","R","S","T","U","V","W","X","Y","Z" >>

IsUpper(ch) == \E i \in 1..Len(UpperCase) : UpperCase[i] = ch

Ord(ch) == CHOOSE i \in 1..Len(UpperCase) : UpperCase[i] = ch

\* The characters the identifiers of the model are written with.
Alphabet == {"A", "C", "S", "1", "a"}

Range(s) == {s[i] : i \in 1..Len(s)}

RECURSIVE SeqsUpTo(_, _)
SeqsUpTo(S, n) ==
  IF n = 0 THEN {<<>>}
  ELSE LET shorter == SeqsUpTo(S, n - 1)
       IN  shorter \cup {Append(s, x) : s \in {t \in shorter : Len(t) = n - 1}, x \in S}

(* ---------------------------- branch_finder ----------------------------- *)
\* An identifier value: na is pd.isna(roll_id), text is str(roll_id).
NaN == [na |-> TRUE, text |-> <<"n", "a", "n">>]

Str(text) == [na |-> FALSE, text |-> text]

NA == <<"N", "A">>

\* re.search(r"[A-Z]{2}", s) scanning from position i: the position of the
\* leftmost match, 0 when there is none.
RECURSIVE re_search(_, _)
re_search(s, i) ==
  IF i + 1 > Len(s) THEN 0
  ELSE IF IsUpper(s[i]) /\ IsUpper(s[i + 1]) THEN i
  ELSE re_search(s, i + 1)

\* Variant: the last match instead of the first.
branch_finder_last(roll_id) ==
  IF roll_id.na THEN NA
  ELSE LET s == roll_id.text
           hits == {i \in 1..(Len(s) - 1) : re_search(s, i) = i}
       IN  IF hits # {}
           THEN LET res == CHOOSE i \in hits : \A j \in hits : j <= i
                IN  SubSeq(s, res, res + 1)
           ELSE NA

branch_finder(roll_id) ==
  IF roll_id.na THEN NA
  ELSE LET s == roll_id.text
           res == re_search(s, 1)
       IN  IF res # 0 THEN SubSeq(s, res, res + 1) ELSE NA

(* ---------------------------- configuration ----------------------------- *)
priority_branches ==
  << <<"A","I">>, <<"C","B">>, <<"C","E">>, <<"C","H">>, <<"C","S">>,
     <<"C","T">>, <<"E","C">>, <<"M","C">>, <<"M","M">>, <<"M","T">> >>

\* The Roll values the input tables of the model are filled with: two branches
\* of the priority list, one that is not in it, and a missing identifier.
RollPool == { Str(<<"1","C","S">>), Str(<<"E","C","2">>), Str(<<"Z","Z">>), NaN }

\* The Roll values of the longest tables: the three that hold a branch code.
NarrowPool == {r \in RollPool : ~r.na}

\* The uploaded tables: every table of at most MaxRecords - 2 rows over
\* RollPool (four branches), and every table of MaxRecords - 1 or MaxRecords
\* rows over NarrowPool (three branches).
Tables ==
  SeqsUpTo(RollPool, MaxRecords - 2)
    \cup {t \in SeqsUpTo(NarrowPool, MaxRecords) : Len(t) >= MaxRecords - 1}

\* The identifiers branch_finder is applied to on its own.
RollInputs == {Str(t) : t \in SeqsUpTo(Alphabet, MaxRollLen)} \cup {NaN}

(* ---------------------------- sequence helpers -------------------------- *)
RECURSIVE SumLen(_)
SumLen(ss) == IF ss = <<>> THEN 0 ELSE Len(Head(ss)) + SumLen(Tail(ss))

RECURSIVE Flatten(_)
Flatten(ss) == IF ss = <<>> THEN <<>> ELSE Head(ss) \o Flatten(Tail(ss))

\* pd.unique: the distinct values of a column, in first-seen order.
RECURSIVE pd_unique(_)
pd_unique(col) ==
  IF col = <<>> THEN <<>>
  ELSE LET front == pd_unique(SubSeq(col, 1, Len(col) - 1))
           last == col[Len(col)]
       IN  IF last \in Range(front) THEN front ELSE Append(front, last)

\* records[records["Branch"] == c].iterrows(): the rows of branch c, in row order.
RowsOf(col, c) ==
  LET Keep(i) == col[i] = c
  IN  SelectSeq([i \in 1..Len(col) |-> i], Keep)

\* math.ceil(a / b) for a >= 0, b >= 1.
Ceil(a, b) == (a + b - 1) \div b

\* sorted(blocks, key=lambda blk: -len(blk)): a stable insertion sort.
RECURSIVE InsertByLen(_, _)
InsertByLen(sorted, blk) ==
  IF sorted = <<>> THEN <<blk>>
  ELSE IF Len(Head(sorted)) >= Len(blk)
       THEN <<Head(sorted)>> \o InsertByLen(Tail(sorted), blk)
       ELSE <<blk>> \o sorted

\* Variant: the leftover blocks are left in branch order.
SortByLenDesc_unsorted(blocks) == blocks

RECURSIVE SortByLenDesc(_)
SortByLenDesc(blocks) ==
  IF blocks = <<>> THEN <<>>
  ELSE InsertByLen(SortByLenDesc(SubSeq(blocks, 1, Len(blocks) - 1)), blocks[Len(blocks)])

\* sorted(codes): lexicographic order of two-letter codes.
CodeLess(a, b) ==
  \/ Ord(a[1]) < Ord(b[1])
  \/ a[1] = b[1] /\ Ord(a[2]) < Ord(b[2])

RECURSIVE SortCodes(_)
SortCodes(S) ==
  IF S = {} THEN <<>>
  ELSE LET least == CHOOSE c \in S : \A d \in S \ {c} : CodeLess(c, d)
       IN  <<least>> \o SortCodes(S \ {least})

OrdersOf(S) ==
  {p \in [1..Cardinality(S) -> S] : \A i, j \in 1..Cardinality(S) : p[i] = p[j] => i = j}

(* ---------------------------- state ------------------------------------- *)
VARIABLES
  pc,                \* position in main() and in the function it is running
  roll,              \* records["Roll"]
  branch,            \* records["Branch"]
  total_parts,       \* the number of groups
  cycle, stock, targets, gi, limit, ci, moved,          \* branchwise_allocation
  pack_size, sorted_codes, leftovers, si, k, group, remain_space,  \* uniform_allocation
  bundles,           \* the groups of the allocator that is running
  branchwise, stats_branchwise, uniform, stats_uniform, \* main's results
  roll_id, code      \* branch_finder called on its own: argument and result

vars ==
  << pc, roll, branch, total_parts, cycle, stock, targets, gi, limit, ci, moved,
     pack_size, sorted_codes, leftovers, si, k, group, remain_space, bundles,
     branchwise, stats_branchwise, uniform, stats_uniform, roll_id, code >>

bwLocals == << cycle, stock, targets, gi, limit, ci, moved >>
unLocals == << pack_size, sorted_codes, leftovers, si, k, group, remain_space >>
results == << branchwise, stats_branchwise, uniform, stats_uniform >>
inputs == << roll, total_parts, roll_id, code >>

NoSummary == [codes |-> <<>>, rows |-> <<>>]

Idle ==
  /\ branch = <<>>
  /\ cycle = <<>> /\ stock = <<>> /\ targets = <<>>
  /\ gi = 0 /\ limit = 0 /\ ci = 0 /\ moved = FALSE
  /\ pack_size = 0 /\ sorted_codes = <<>> /\ leftovers = <<>>
  /\ si = 0 /\ k = 0 /\ group = <<>> /\ remain_space = 0
  /\ bundles = <<>>
  /\ branchwise = <<>> /\ uniform = <<>>
  /\ stats_branchwise = NoSummary /\ stats_uniform = NoSummary

\* main() starts with nothing read.
Init ==
  /\ pc = "read"
  /\ roll = <<>>
  /\ total_parts = 1
  /\ roll_id = NaN /\ code = <<>>
  /\ Idle

(* ---------------------------- main: input ------------------------------- *)
\* Lines 109-121: the group count and the uploaded table, of at most
\* MaxRecords rows.
ReadInput ==
  /\ pc = "read"
  /\ roll' \in Tables
  /\ total_parts' \in 1..MaxParts
  /\ pc' = "annotate"
  /\ UNCHANGED << roll_id, code, branch, bwLocals, unLocals, bundles, results >>

(* ---------------------------- main: annotation -------------------------- *)
\* records["Branch"] = records["Roll"].apply(branch_finder)
Annotate ==
  /\ pc = "annotate"
  /\ branch' = [i \in 1..Len(roll) |-> branch_finder(roll[i])]
  /\ pc' = "bw_setup"
  /\ UNCHANGED << inputs, bwLocals, unLocals, bundles, results >>

(* ---------------------------- branchwise_allocation --------------------- *)
InPriority(c) == c \in Range(priority_branches)

\* Variant: the branches in first-seen order, the priority list ignored.
Cycle_first_seen(active_codes) == active_codes

\* Variant: only the branches of the priority list.
Cycle_priority_only(active_codes) ==
  LET Present(c) == c \in Range(active_codes)
  IN  SelectSeq(priority_branches, Present)

Cycle(active_codes) ==
  LET Present(c) == c \in Range(active_codes)
      Other(c) == ~InPriority(c)
  IN  SelectSeq(priority_branches, Present) \o SelectSeq(active_codes, Other)

Stock(col, cyc) == [c \in Range(cyc) |-> RowsOf(col, c)]

\* Variant: the extra records go to the last groups.
Targets_last_groups(size, parts) ==
  LET base_size == size \div parts
      remainder == size % parts
  IN  [i \in 1..parts |-> base_size + (IF i > parts - remainder THEN 1 ELSE 0)]

Targets(size, parts) ==
  LET base_size == size \div parts
      remainder == size % parts
  IN  [i \in 1..parts |-> base_size + (IF i - 1 < remainder THEN 1 ELSE 0)]

\* Lines 43-52.
BwSetup ==
  /\ pc = "bw_setup"
  /\ cycle' = Cycle(pd_unique(branch))
  /\ stock' = Stock(branch, cycle')
  /\ targets' = Targets(Len(branch), total_parts)
  /\ bundles' = [i \in 1..total_parts |-> <<>>]
  /\ gi' = 0
  /\ pc' = "bw_for"
  /\ UNCHANGED << inputs, branch, limit, ci, moved, unLocals, results >>

\* Lines 53-54: the next group, or the return of the groups to main.
BwFor ==
  /\ pc = "bw_for"
  /\ IF gi < total_parts
     THEN /\ limit' = targets[gi + 1]
          /\ pc' = "bw_while"
          /\ UNCHANGED << branchwise >>
     ELSE /\ branchwise' = bundles
          /\ pc' = "sum_bw"
          /\ UNCHANGED << limit >>
  /\ UNCHANGED << inputs, branch, cycle, stock, targets, gi, ci, moved, unLocals,
                  bundles, stats_branchwise, uniform, stats_uniform >>

\* Lines 55-56: the group is full, or a new sweep of the cycle starts.
BwWhile ==
  /\ pc = "bw_while"
  /\ IF Len(bundles[gi + 1]) < limit
     THEN /\ moved' = FALSE
          /\ ci' = 0
          /\ pc' = "bw_draw"
          /\ UNCHANGED gi
     ELSE /\ gi' = gi + 1
          /\ pc' = "bw_for"
          /\ UNCHANGED << moved, ci >>
  /\ UNCHANGED << inputs, branch, cycle, stock, targets, limit, unLocals, bundles, results >>

\* Lines 57-62: one iteration of the loop over the cycle.
BwDraw ==
  /\ pc = "bw_draw"
  /\ IF ci >= Len(cycle) \/ Len(bundles[gi + 1]) >= limit
     THEN /\ pc' = "bw_sweep_end"
          /\ UNCHANGED << stock, bundles, moved, ci >>
     ELSE LET c == cycle[ci + 1]
          IN  /\ IF stock[c] # <<>>
                 THEN /\ bundles' = [bundles EXCEPT ![gi + 1] = Append(@, Head(stock[c]))]
                      /\ stock' = [stock EXCEPT ![c] = Tail(@)]
                      /\ moved' = TRUE
                 ELSE UNCHANGED << stock, bundles, moved >>
              /\ ci' = ci + 1
              /\ pc' = "bw_draw"
  /\ UNCHANGED << inputs, branch, cycle, targets, gi, limit, unLocals, results >>

\* Lines 63-64: a sweep that moved nothing ends the group.
BwSweepEnd ==
  /\ pc = "bw_sweep_end"
  /\ IF ~moved
     THEN /\ gi' = gi + 1
          /\ pc' = "bw_for"
     ELSE /\ pc' = "bw_while"
          /\ UNCHANGED gi
  /\ UNCHANGED << inputs, branch, cycle, stock, targets, limit, ci, moved, unLocals,
                  bundles, results >>

(* ---------------------------- compile_summary --------------------------- *)
CountOf(pack, c) == Cardinality({i \in 1..Len(pack) : branch[pack[i]] = c})

\* Variant: enumerate(bundles) without start=1, so that the counts of group i
\* are written to the row of group i - 1.
compile_summary_from0(bs, parts) ==
  LET filled == {i \in 1..Len(bs) : bs[i] # <<>>}
      written == {i - 1 : i \in filled}
      codeset == UNION {{branch[bs[i][j]] : j \in 1..Len(bs[i])} : i \in filled}
  IN  [ codes |-> SortCodes(codeset),
        rows |-> [ idx \in (1..parts) \cup written |->
                     IF idx \in written
                     THEN [ counts |-> [c \in codeset |-> CountOf(bs[idx + 1], c)],
                            Total |-> Len(bs[idx + 1]) ]
                     ELSE [ counts |-> [c \in codeset |-> 0], Total |-> 0 ] ] ]

\* Lines 29-38.  The frame has the rows "Group 1".."Group total_parts"; writing
\* a non-empty pack's counts with .loc creates the row when it is missing.
compile_summary(bs, parts) ==
  LET filled == {i \in 1..Len(bs) : bs[i] # <<>>}
      codeset == UNION {{branch[bs[i][j]] : j \in 1..Len(bs[i])} : i \in filled}
  IN  [ codes |-> SortCodes(codeset),
        rows |-> [ idx \in (1..parts) \cup filled |->
                     IF idx \in filled
                     THEN [ counts |-> [c \in codeset |-> CountOf(bs[idx], c)],
                            Total |-> Len(bs[idx]) ]
                     ELSE [ counts |-> [c \in codeset |-> 0], Total |-> 0 ] ] ]

\* Line 125.
SummariseBranchwise ==
  /\ pc = "sum_bw"
  /\ stats_branchwise' = compile_summary(branchwise, total_parts)
  /\ pc' = "un_setup"
  /\ UNCHANGED << inputs, branch, bwLocals, unLocals, bundles, branchwise, uniform,
                  stats_uniform >>

\* Line 127.
SummariseUniform ==
  /\ pc = "sum_un"
  /\ stats_uniform' = compile_summary(uniform, total_parts)
  /\ pc' = "done"
  /\ UNCHANGED << inputs, branch, bwLocals, unLocals, bundles, branchwise, uniform,
                  stats_branchwise >>

(* ---------------------------- uniform_allocation ------------------------ *)
\* Variant: size // total_parts, rounded down.
PackSize_floor(size, parts) == size \div parts

\* Variant: rounded down, but at least one.
PackSize_floor_min1(size, parts) == IF size \div parts = 0 THEN 1 ELSE size \div parts

PackSize(size, parts) == Ceil(size, parts)

\* records["Branch"].value_counts()
Freq(col, c) == Len(RowsOf(col, c))

\* freq.sort_values(ascending=False).index: the branches by descending count.
\* The sort is not a stable one, so branches of equal count come in any order.
SortedCodeOrders(col) ==
  {p \in OrdersOf(Range(col)) :
     \A i, j \in 1..Len(p) : i < j => Freq(col, p[i]) >= Freq(col, p[j])}

\* Lines 68-74.
UnSetup ==
  /\ pc = "un_setup"
  /\ pack_size' = PackSize(Len(branch), total_parts)
  /\ bundles' = <<>>
  /\ leftovers' = <<>>
  /\ sorted_codes' \in SortedCodeOrders(branch)
  /\ si' = 0
  /\ pc' = "un_for"
  /\ UNCHANGED << inputs, branch, bwLocals, k, group, remain_space, results >>

\* Lines 76-77 and 83: the next branch, or the sort of the leftover blocks.
UnFor ==
  /\ pc = "un_for"
  /\ IF si < Len(sorted_codes)
     THEN /\ k' = 0
          /\ pc' = "un_chunk"
          /\ UNCHANGED leftovers
     ELSE /\ leftovers' = SortByLenDesc(leftovers)
          /\ pc' = "un_merge"
          /\ UNCHANGED k
  /\ UNCHANGED << inputs, branch, bwLocals, pack_size, sorted_codes, si, group,
                  remain_space, bundles, results >>

\* Lines 78-82: one full chunk of the branch, or its tail as a leftover block.
UnChunk ==
  /\ pc = "un_chunk"
  /\ LET rows == RowsOf(branch, sorted_codes[si + 1])
     IN  IF Len(rows) - k >= pack_size
         THEN /\ bundles' = Append(bundles, SubSeq(rows, k + 1, k + pack_size))
              /\ k' = k + pack_size
              /\ pc' = "un_chunk"
              /\ UNCHANGED << leftovers, si >>
         ELSE /\ leftovers' = IF k < Len(rows)
                              THEN Append(leftovers, SubSeq(rows, k + 1, Len(rows)))
                              ELSE leftovers
              /\ si' = si + 1
              /\ pc' = "un_for"
              /\ UNCHANGED << bundles, k >>
  /\ UNCHANGED << inputs, branch, bwLocals, pack_size, sorted_codes, group,
                  remain_space, results >>

\* Lines 85-88 and 101: the seed of the next merged group, or the padding.
UnMerge ==
  /\ pc = "un_merge"
  /\ IF leftovers # <<>>
     THEN /\ group' = Head(leftovers)
          /\ leftovers' = Tail(leftovers)
          /\ remain_space' = pack_size - Len(Head(leftovers))
          /\ pc' = "un_fill"
     ELSE /\ pc' = "un_pad"
          /\ UNCHANGED << group, leftovers, remain_space >>
  /\ UNCHANGED << inputs, branch, bwLocals, pack_size, sorted_codes, si, k, bundles,
                  results >>

\* Variant: the capacity test is missing.
Fits_always(candidate, space) == TRUE

Fits(candidate, space) == Len(candidate) <= space

Take(candidate, space) == SubSeq(candidate, 1, space)

\* Variant: the suffix starts one record late.
Left_skips_one(candidate, space) == SubSeq(candidate, space + 2, Len(candidate))

Left(candidate, space) == SubSeq(candidate, space + 1, Len(candidate))

\* Lines 89-99: one more block into the group, or the group is finished.
UnFill ==
  /\ pc = "un_fill"
  /\ IF remain_space > 0 /\ leftovers # <<>>
     THEN LET candidate == Head(leftovers)
          IN  /\ IF Fits(candidate, remain_space)
                 THEN /\ group' = group \o candidate
                      /\ leftovers' = Tail(leftovers)
                      /\ remain_space' = remain_space - Len(candidate)
                 ELSE /\ group' = group \o Take(candidate, remain_space)
                      /\ leftovers' = <<Left(candidate, remain_space)>> \o Tail(leftovers)
                      /\ remain_space' = 0
              /\ pc' = "un_fill"
              /\ UNCHANGED bundles
     ELSE /\ bundles' = Append(bundles, group)
          /\ pc' = "un_merge"
          /\ UNCHANGED << group, leftovers, remain_space >>
  /\ UNCHANGED << inputs, branch, bwLocals, pack_size, sorted_codes, si, k, results >>

\* Lines 101-103: empty groups up to total_parts, then the return to main.
UnPad ==
  /\ pc = "un_pad"
  /\ IF Len(bundles) < total_parts
     THEN /\ bundles' = Append(bundles, <<>>)
          /\ pc' = "un_pad"
          /\ UNCHANGED uniform
     ELSE /\ uniform' = bundles
          /\ pc' = "sum_un"
          /\ UNCHANGED bundles
  /\ UNCHANGED << inputs, branch, bwLocals, unLocals, branchwise, stats_branchwise,
                  stats_uniform >>

(* ---------------------------- specifications ---------------------------- *)
Next ==
  \/ ReadInput
  \/ Annotate
  \/ BwSetup \/ BwFor \/ BwWhile \/ BwDraw \/ BwSweepEnd
  \/ SummariseBranchwise
  \/ UnSetup \/ UnFor \/ UnChunk \/ UnMerge \/ UnFill \/ UnPad
  \/ SummariseUniform

Spec == Init /\ [][Next]_vars


\* branch_finder applied to one identifier.
InitExtract ==
  /\ pc = "bf_call"
  /\ roll_id \in RollInputs
  /\ code = <<>>
  /\ roll = <<>> /\ total_parts = 1
  /\ Idle

BfCall ==
  /\ pc = "bf_call"
  /\ code' = branch_finder(roll_id)
  /\ pc' = "bf_return"
  /\ UNCHANGED << roll, total_parts, roll_id, branch, bwLocals, unLocals, bundles, results >>

NextExtract == BfCall

SpecExtract == InitExtract /\ [][NextExtract]_vars

(* ======================================================================== *)
(* Properties                                                               *)
(* ======================================================================== *)
\* branchwise_allocation has just returned its groups to main().
BranchwiseReturned == pc = "sum_bw"

\* uniform_allocation has just returned its groups to main().
UniformReturned == pc = "sum_un"

Codes == Range(branch)

RECURSIVE SumOver(_, _)
SumOver(S, f) ==
  IF S = {} THEN 0
  ELSE LET x == CHOOSE y \in S : TRUE IN f[x] + SumOver(S \ {x}, f)

\* Every row 1..n occurs exactly once in the groups gs.
IsPartition(gs, n) ==
  LET flat == Flatten(gs)
  IN  /\ Len(flat) = n
      /\ Range(flat) = 1..n
      /\ SumLen(gs) = n

SameBranch(rows) == \A i, j \in 1..Len(rows) : branch[rows[i]] = branch[rows[j]]

SortedDesc(blocks) ==
  \A i, j \in 1..Len(blocks) : i < j => Len(blocks[i]) >= Len(blocks[j])

\* The groups uniform_allocation cuts directly from one branch's rows.
NumFullChunks ==
  IF pack_size = 0 THEN 0
  ELSE SumOver(Codes, [c \in Codes |-> Freq(branch, c) \div pack_size])

\* A branch with fewer rows than a chunk whose rows lie in two groups: its
\* leftover block was split.
SplitIn(gs) ==
  \E c \in Codes :
    /\ Freq(branch, c) < pack_size
    /\ \E g, h \in 1..Len(gs) :
         /\ g # h
         /\ \E i \in 1..Len(gs[g]) : branch[gs[g][i]] = c
         /\ \E i \in 1..Len(gs[h]) : branch[gs[h][i]] = c

(* ---------------------------- C1 ---------------------------------------- *)
\* C1: uniform_allocation puts every input record in exactly one group: the
\* groups it returns, concatenated, hold each row 1..n once, and their lengths
\* add up to n.  Throughout the merge phase the rows are shared out, without
\* repetition, among the groups made so far, the group being merged and the
\* leftover queue (the suffix a split pushed back included).
C1_UniformKeepsEveryRecord ==
  /\ UniformReturned => IsPartition(uniform, Len(branch))
  /\ pc \in {"un_merge", "un_fill", "un_pad"} =>
       IsPartition(bundles \o (IF pc = "un_fill" THEN <<group>> ELSE <<>>) \o leftovers,
                   Len(branch))

\* uniform_allocation returns groups for which it split a leftover block.
C1_Witness ==
  /\ UniformReturned
  /\ SplitIn(uniform)
  /\ Len(branch) >= 5

(* ---------------------------- C2 ---------------------------------------- *)
\* C2: both allocators return exactly total_parts groups; uniform_allocation
\* reaches its padding loop with at most total_parts groups; on an empty table
\* every group of both is empty.
C2_ExactlyNGroups ==
  /\ BranchwiseReturned => Len(branchwise) = total_parts
  /\ pc = "un_pad" => Len(bundles) <= total_parts
  /\ UniformReturned => Len(uniform) = total_parts
  /\ UniformReturned /\ roll = <<>> =>
       /\ \A i \in 1..Len(branchwise) : branchwise[i] = <<>>
       /\ \A i \in 1..Len(uniform) : uniform[i] = <<>>

\* Three groups were asked for and uniform_allocation padded the third.
C2_Witness ==
  /\ UniformReturned
  /\ total_parts = 3
  /\ Len(uniform) = 3 /\ uniform[1] # <<>> /\ uniform[3] = <<>>
  /\ Len(branchwise) = 3

(* ---------------------------- C3 ---------------------------------------- *)
\* C3: the groups of branchwise_allocation differ in length by at most one and
\* the longer ones come first: with base = n div N and remainder = n mod N,
\* groups 1..remainder hold base+1 records and the others hold base.
C3_QuotaLaw ==
  BranchwiseReturned =>
    LET n == Len(branch)
        base == n \div total_parts
        remainder == n % total_parts
    IN  /\ \A i \in 1..Len(branchwise) :
             Len(branchwise[i]) = (IF i <= remainder THEN base + 1 ELSE base)
        /\ \A i, j \in 1..Len(branchwise) :
             /\ Len(branchwise[i]) - Len(branchwise[j]) <= 1
             /\ i < j => Len(branchwise[i]) >= Len(branchwise[j])

\* Five records in three groups: sizes 2, 2, 1.
C3_Witness ==
  /\ BranchwiseReturned
  /\ Len(branch) = 5 /\ total_parts = 3
  /\ Len(branchwise[1]) = 2 /\ Len(branchwise[3]) = 1

(* ---------------------------- C4 ---------------------------------------- *)
\* C4: with pack_size = ceil(n / N), every group cut directly from a branch's
\* rows has exactly pack_size records of one branch, every merged group has at
\* most pack_size records, and so no returned group is longer than pack_size.
C4_ChunkLaw ==
  /\ pc = "un_for" =>
       pack_size = (IF Len(branch) % total_parts = 0
                    THEN Len(branch) \div total_parts
                    ELSE Len(branch) \div total_parts + 1)
  /\ pc \in {"un_for", "un_chunk"} =>
       \A i \in 1..Len(bundles) : Len(bundles[i]) = pack_size /\ SameBranch(bundles[i])
  /\ pc = "un_fill" => Len(group) <= pack_size
  /\ UniformReturned =>
       /\ NumFullChunks <= Len(uniform)
       /\ \A i \in 1..Len(uniform) :
            /\ i <= NumFullChunks => Len(uniform[i]) = pack_size /\ SameBranch(uniform[i])
            /\ Len(uniform[i]) <= pack_size

\* Seven records in three groups (pack_size 3): the run cut a full chunk and
\* also merged leftovers of two branches into a full group.
C4_Witness ==
  /\ UniformReturned
  /\ Len(branch) = 7 /\ total_parts = 3 /\ pack_size = 3
  /\ NumFullChunks >= 1
  /\ \E i \in 1..Len(uniform) :
       i > NumFullChunks /\ Len(uniform[i]) = pack_size /\ ~SameBranch(uniform[i])

(* ---------------------------- C5 ---------------------------------------- *)
\* What compile_summary must return for the groups gs.
SummaryLaw(stats, gs) ==
  LET cols == Range(stats.codes)
  IN  /\ DOMAIN stats.rows = 1..total_parts
      /\ cols = Codes
      /\ \A i \in DOMAIN stats.rows :
           /\ DOMAIN stats.rows[i].counts = cols
           /\ stats.rows[i].Total = SumOver(cols, stats.rows[i].counts)
           /\ i \in 1..Len(gs) /\ stats.rows[i].Total = Len(gs[i])
      /\ \A c \in cols :
           SumOver(DOMAIN stats.rows, [i \in DOMAIN stats.rows |-> stats.rows[i].counts[c]])
             = Freq(branch, c)
      /\ roll = <<>> =>
           stats.codes = <<>> /\ \A i \in DOMAIN stats.rows : stats.rows[i].Total = 0

\* C5: for the groups of either allocator, compile_summary yields one row per
\* group 1..N, empty groups included; each row's Total is the sum of its branch
\* counts and the size of its group; each branch column sums to the number of
\* input records of that branch; on an empty table there is only the Total
\* column and it is all zero.
C5_SummaryLaws ==
  /\ pc = "un_setup" => SummaryLaw(stats_branchwise, branchwise)
  /\ pc = "done" => SummaryLaw(stats_uniform, uniform)

\* Both summaries are made, of two branches or more, and the uniform one has
\* an all-zero row for an empty group.
C5_Witness ==
  /\ pc = "done"
  /\ Len(stats_uniform.codes) >= 2
  /\ stats_uniform.rows[total_parts].Total = 0
  /\ stats_branchwise.rows[total_parts].Total > 0

(* ---------------------------- C6 ---------------------------------------- *)
\* The positions of text s at which two uppercase letters stand side by side.
UpperPairs(s) == {i \in 1..(Len(s) - 1) : IsUpper(s[i]) /\ IsUpper(s[i + 1])}

\* C6: branch_finder returns "NA" for a missing identifier and for a text with
\* no two adjacent uppercase letters; otherwise it returns the two letters at
\* the leftmost position where two uppercase letters are adjacent (the regular
\* expression [A-Z]{2}; the letters may be part of a longer run).  The result
\* is always two uppercase letters.
C6_BranchFinder ==
  pc = "bf_return" =>
    /\ Len(code) = 2 /\ IsUpper(code[1]) /\ IsUpper(code[2])
    /\ IF roll_id.na \/ UpperPairs(roll_id.text) = {}
       THEN code = NA
       ELSE \E i \in UpperPairs(roll_id.text) :
              /\ \A j \in UpperPairs(roll_id.text) : i <= j
              /\ code = << roll_id.text[i], roll_id.text[i + 1] >>

\* "1ACS": a run of three uppercase letters after a digit gives "AC".
C6_Witness ==
  /\ pc = "bf_return"
  /\ roll_id = Str(<<"1", "A", "C", "S">>)
  /\ code = <<"A", "C">>

(* ---------------------------- C7 ---------------------------------------- *)
Longest(blocks) == \A i \in 1..Len(blocks) : Len(blocks[1]) >= Len(blocks[i])

\* C7 as claimed: whenever a merged group is started, the block at the front
\* of the leftover queue, which becomes its seed, is a longest block of the
\* queue.
C7_SeedIsLongest ==
  pc = "un_merge" /\ leftovers # <<>> => Longest(leftovers)

\* The front block continues, in row order and in the same branch, the block
\* whose first part closed the group just finished.
FrontIsPushedBackSuffix ==
  /\ remain_space = 0
  /\ group # <<>>
  /\ Len(group) = pack_size
  /\ LET last == group[Len(group)]
         first == leftovers[1][1]
     IN  /\ branch[last] = branch[first]
         /\ last < first
         /\ \A r \in (last + 1)..(first - 1) : branch[r] # branch[first]

\* C7 amended: whenever a merged group is started, its seed is the front block
\* of the leftover queue, and the blocks behind it are in non-increasing length
\* order.  The seed is a longest block of the queue unless it is the suffix the
\* split of the preceding group pushed back, which may be shorter than blocks
\* behind it; the seed of the first merged group is a longest block.
C7_SeedIsFrontOfQueue ==
  /\ pc \in {"un_merge", "un_fill"} /\ leftovers # <<>> => SortedDesc(Tail(leftovers))
  /\ pc = "un_merge" /\ leftovers # <<>> =>
       /\ Longest(leftovers) \/ FrontIsPushedBackSuffix
       /\ Len(bundles) = NumFullChunks => Longest(leftovers)

\* A merged group is about to start from a pushed-back suffix that is shorter
\* than a block behind it.
C7_Witness ==
  /\ pc = "un_merge"
  /\ leftovers # <<>>
  /\ ~Longest(leftovers)
  /\ FrontIsPushedBackSuffix

(* ---------------------------- C8 ---------------------------------------- *)
PositionIn(s, x) == CHOOSE i \in 1..Len(s) : s[i] = x

MinOf(S) == CHOOSE x \in S : \A y \in S : x <= y

FirstSeen(c) == MinOf({r \in 1..Len(branch) : branch[r] = c})

CycleLaw ==
  /\ Range(cycle) = Codes
  /\ \A i, j \in 1..Len(cycle) : i < j =>
       /\ cycle[i] # cycle[j]
       /\ \/ InPriority(cycle[i]) /\ ~InPriority(cycle[j])
          \/ /\ InPriority(cycle[i]) /\ InPriority(cycle[j])
             /\ PositionIn(priority_branches, cycle[i]) < PositionIn(priority_branches, cycle[j])
          \/ /\ ~InPriority(cycle[i]) /\ ~InPriority(cycle[j])
             /\ FirstSeen(cycle[i]) < FirstSeen(cycle[j])

\* The q-th record drawn overall is the oldest unassigned record of the next
\* branch, in cycle order after the branch drawn before it in the same group
\* (from the start of the cycle for the first record of a group, and wrapping
\* round to a new sweep), among the branches that still have records.
DrawLaw(gs) ==
  LET flat == Flatten(gs)
      starts == {1 + SumLen(SubSeq(gs, 1, g - 1)) : g \in 1..Len(gs)}
  IN  \A q \in 1..Len(flat) :
        LET before == {flat[p] : p \in 1..(q - 1)}
            open == {i \in 1..Len(cycle) :
                       \E r \in 1..Len(branch) : branch[r] = cycle[i] /\ r \notin before}
            a == IF q \in starts THEN 0 ELSE PositionIn(cycle, branch[flat[q - 1]])
            later == {i \in open : i > a}
            next == IF later # {} THEN MinOf(later) ELSE MinOf(open)
        IN  /\ open # {}
            /\ flat[q] = MinOf({r \in 1..Len(branch) : branch[r] = cycle[next] /\ r \notin before})

CS == <<"C", "S">>

EC == <<"E", "C">>

\* C8: the draw cycle holds each branch of the input once, the codes of
\* priority_branches first and in that order, then the others in first-seen
\* order; the groups are filled in index order by sweeps of the cycle, each
\* draw taking the oldest unassigned record of the next branch that still has
\* one.  Rolls of branches CS, CS, CS, EC in two groups give rows <<1, 4>> and
\* <<2, 3>>.
C8_DrawOrder ==
  /\ priority_branches =
       << <<"A","I">>, <<"C","B">>, <<"C","E">>, <<"C","H">>, CS,
          <<"C","T">>, EC, <<"M","C">>, <<"M","M">>, <<"M","T">> >>
  /\ pc = "bw_for" => CycleLaw
  /\ pc = "bw_for" => DrawLaw(SubSeq(bundles, 1, gi))
  /\ BranchwiseReturned => DrawLaw(branchwise)
  /\ BranchwiseReturned /\ branch = <<CS, CS, CS, EC>> /\ total_parts = 2 =>
       branchwise = << <<1, 4>>, <<2, 3>> >>

\* The scenario of the claim has run.
C8_Witness ==
  /\ BranchwiseReturned
  /\ branch = <<CS, CS, CS, EC>>
  /\ total_parts = 2
  /\ cycle = <<CS, EC>>

(* ---------------------------- C9 ---------------------------------------- *)
\* C9: branchwise_allocation never under-allocates: no sweep ends without
\* having moved a record, so the early exit is never taken below the target;
\* every group ends with exactly its target size, and every input record is in
\* exactly one group.
C9_NeverUnderAllocates ==
  /\ pc = "bw_sweep_end" => moved
  /\ pc = "bw_for" => \A g \in 1..gi : Len(bundles[g]) = targets[g]
  /\ BranchwiseReturned =>
       /\ \A g \in 1..total_parts : Len(branchwise[g]) = targets[g]
       /\ IsPartition(branchwise, Len(branch))

\* A sweep ends with a branch exhausted and the group still below its target.
C9_Witness ==
  /\ pc = "bw_sweep_end"
  /\ moved
  /\ Len(bundles[gi + 1]) < limit
  /\ \E c \in DOMAIN stock : stock[c] = <<>>

(* ---------------------------- C10 --------------------------------------- *)
\* A bound on the loop measures below, for the table and group count read.
Big(n, parts) == (parts + 1) * (2 * n + 2) * (n + 4) + n + 4

InStock == SumOver(DOMAIN stock, [c \in DOMAIN stock |-> Len(stock[c])])

\* branchwise_allocation: groups still to fill, then records still in stock
\* (counted twice, plus one while a sweep that moved a record is under way),
\* then the position within the sweep.
BwMeasure ==
  LET n == Len(branch)
      c == Len(cycle)
      sweeping == IF pc \in {"bw_draw", "bw_sweep_end"} /\ moved THEN 1 ELSE 0
      pos == CASE pc = "bw_for" -> c + 3
               [] pc = "bw_while" -> c + 2
               [] pc = "bw_draw" -> c - ci + 1
               [] OTHER -> 0
  IN  ((total_parts - gi) * (2 * n + 2) + 2 * InStock + sweeping) * (c + 4) + pos

\* The chunk loop: branches still to cut, then rows of the branch still to cut.
ChunkMeasure ==
  LET n == Len(branch)
      pos == IF pc = "un_for" THEN n + 2
             ELSE Len(RowsOf(branch, sorted_codes[si + 1])) - k + 1
  IN  (Len(sorted_codes) - si) * (n + 3) + pos

\* The merge loop: records still in the leftover queue.
MergeMeasure == 2 * SumLen(leftovers) + (IF pc = "un_fill" THEN 1 ELSE 0)

PadMeasure ==
  IF Len(bundles) < total_parts THEN total_parts - Len(bundles) + 1 ELSE 1

\* A natural number that every step of main() makes smaller.
Rank ==
  LET B == Big(Len(roll), total_parts)
  IN  CASE pc = "read" -> 11 * Big(MaxRecords, MaxParts)
        [] pc = "annotate" -> 9 * B
        [] pc = "bw_setup" -> 8 * B
        [] pc \in {"bw_for", "bw_while", "bw_draw", "bw_sweep_end"} -> 7 * B + BwMeasure
        [] pc = "sum_bw" -> 6 * B
        [] pc = "un_setup" -> 5 * B
        [] pc \in {"un_for", "un_chunk"} -> 4 * B + ChunkMeasure
        [] pc \in {"un_merge", "un_fill"} -> 3 * B + MergeMeasure
        [] pc = "un_pad" -> 2 * B + PadMeasure
        [] pc = "sum_un" -> B
        [] OTHER -> 0

\* The step main() is at can be taken.  Every action is guarded by its
\* position alone, except UnSetup, which needs an order of the branches.
Runnable ==
  /\ pc \in {"read", "annotate", "bw_setup", "bw_for", "bw_while", "bw_draw",
             "bw_sweep_end", "sum_bw", "un_setup", "un_for", "un_chunk", "un_merge",
             "un_fill", "un_pad", "sum_un", "done"}
  /\ pc = "un_setup" => SortedCodeOrders(branch) # {}

LoopFacts ==
  \* the chunk loop advances: a chunk has at least one record
  /\ pc \in {"un_for", "un_chunk"} /\ branch # <<>> => pack_size >= 1
  \* no leftover block is empty
  /\ \A i \in 1..Len(leftovers) : leftovers[i] # <<>>
  \* the run has not stopped short of its end
  /\ Runnable

QueueShrinks ==
  pc \in {"un_merge", "un_fill"} =>
    /\ SumLen(leftovers') <= SumLen(leftovers)
    /\ pc = "un_merge" /\ pc' = "un_fill" => SumLen(leftovers') < SumLen(leftovers)

\* C10: both allocators terminate.  Every step of the run lowers the natural
\* number Rank, so the run cannot go on for ever, and it does not stop before
\* main() is done.  In particular pack_size >= 1 whenever there are records to
\* chunk, no leftover block in the queue is empty, no step of the merge loop
\* adds records to the queue, and starting a merged group removes some.
C10_Terminates ==
  /\ [](Rank \in Nat /\ LoopFacts)
  /\ [][Rank' < Rank]_vars
  /\ [][QueueShrinks]_vars

\* The merge loop has just split a block and pushed its suffix back on the
\* front of the queue.
C10_Witness ==
  /\ pc = "un_fill"
  /\ remain_space = 0
  /\ leftovers # <<>>
  /\ Len(group) = pack_size
  /\ branch[group[Len(group)]] = branch[leftovers[1][1]]
  /\ Len(leftovers[1]) < Freq(branch, branch[leftovers[1][1]]) % pack_size

====
